---- MODULE Spec2Model ----
(***************************************************************************)
(* A model of src/project.py: class PriceMachine (the catalog self.data,   *)
(* load_prices, _search_product_price_weight, find_text, export_to_html).  *)
(*                                                                         *)
(* Text is modelled as a sequence of one-character strings, so that        *)
(* `in`, endswith, lower, strip and int are computed character by          *)
(* character.  The Cyrillic header synonyms of the source are written in   *)
(* Latin transliteration (the module is ASCII): nazvanie, produkt, tovar,  *)
(* naimenovanie / cena, roznica / fasovka, massa, ves.                     *)
(***************************************************************************)
EXTENDS Integers, Sequences, FiniteSets, TLC

VARIABLES
    data,         \* self.data: the catalog, a list of 5-field rows
    disk,         \* the file system: directory path -> (entry name -> content)
    op,           \* the method called last
    file_path,    \* load_prices: its argument ("" after another method)
    price_files,  \* load_prices: its local price_files (the filtered listing)
    text,         \* find_text: its argument (<<>> after another method)
    raised,       \* the exception the last call left with, "" for none
    out,          \* what the last call produced: the list load_prices or find_text
                  \* returned, the <tbody> rows export_to_html wrote
    header_row,   \* _search_product_price_weight called on its own: its argument
    indices       \* ... and the tuple it returned

vars == <<data, disk, op, file_path, price_files, text, raised, out, header_row, indices>>

(***************************************************************************)
(* Bounds of the model.                                                    *)
(***************************************************************************)
MaxData == 6      \* load_prices is not taken when it would grow the catalog beyond this
MaxHeaders == 4   \* the longest header row given to _search_product_price_weight on its own

(***************************************************************************)
(* Text helpers (Python str operations).                                   *)
(***************************************************************************)
\* sub in s
IsSubstring(sub, s) ==
    \E i \in 0..(Len(s) - Len(sub)) : SubSeq(s, i + 1, i + Len(sub)) = sub

\* s.endswith(suffix)
EndsWith(s, suffix) ==
    /\ Len(suffix) <= Len(s)
    /\ SubSeq(s, Len(s) - Len(suffix) + 1, Len(s)) = suffix

LowerChar(c) ==
    CASE c = "A" -> "a"
      [] c = "B" -> "b"
      [] c = "P" -> "p"
      [] OTHER -> c

\* s.lower()
Lower(s) == [i \in 1..Len(s) |-> LowerChar(s[i])]

IsSpace(c) == c \in {" ", "\t"}

SetMin(S) == CHOOSE x \in S : \A y \in S : x <= y
SetMax(S) == CHOOSE x \in S : \A y \in S : y <= x

\* s.strip()
Strip(s) ==
    LET keep == {i \in 1..Len(s) : ~IsSpace(s[i])}
    IN  IF keep = {} THEN <<>> ELSE SubSeq(s, SetMin(keep), SetMax(keep))

Digits == {"0", "1", "2", "3", "4", "5", "6", "7", "8", "9"}

DigitVal(c) ==
    CASE c = "0" -> 0 [] c = "1" -> 1 [] c = "2" -> 2 [] c = "3" -> 3
      [] c = "4" -> 4 [] c = "5" -> 5 [] c = "6" -> 6 [] c = "7" -> 7
      [] c = "8" -> 8 [] c = "9" -> 9

RECURSIVE DigitsValue(_, _)
\* the value of the digits of body read left to right (underscores carry no value)
DigitsValue(body, acc) ==
    IF body = <<>> THEN acc
    ELSE IF Head(body) = "_" THEN DigitsValue(Tail(body), acc)
    ELSE DigitsValue(Tail(body), 10 * acc + DigitVal(Head(body)))

\* int(s): surrounding whitespace, one optional sign, decimal digits, single
\* underscores between digits; anything else raises ValueError
IntOf(s) ==
    LET t      == Strip(s)
        signed == Len(t) > 0 /\ t[1] \in {"+", "-"}
        body   == IF signed THEN Tail(t) ELSE t
        wellFormed ==
            /\ Len(body) > 0
            /\ \A i \in 1..Len(body) :
                  \/ body[i] \in Digits
                  \/ /\ body[i] = "_"
                     /\ 1 < i /\ i < Len(body)
                     /\ body[i - 1] \in Digits
                     /\ body[i + 1] \in Digits
        mag    == DigitsValue(body, 0)
    IN  IF ~wellFormed THEN [raised |-> TRUE, value |-> 0]
        ELSE [raised |-> FALSE,
              value  |-> IF signed /\ t[1] = "-" THEN 0 - mag ELSE mag]

(***************************************************************************)
(* _search_product_price_weight.  An Optional[int] is a record: None has   *)
(* some = FALSE; an index i (0-based, as enumerate gives it) has           *)
(* some = TRUE and i.                                                      *)
(***************************************************************************)
None == [some |-> FALSE, i |-> 0]
Some(i) == [some |-> TRUE, i |-> i]

NameSynonyms == {"nazvanie", "produkt", "tovar", "naimenovanie"}
PriceSynonyms == {"cena", "roznica"}
WeightSynonyms == {"fasovka", "massa", "ves"}

\* (mutant of FirstIndex: the last matching header wins)
FirstIndexLast(headers, synonyms) ==
    LET hits == {i \in 1..Len(headers) : headers[i] \in synonyms}
    IN  IF hits = {} THEN None ELSE Some(SetMax(hits) - 1)

\* next((i for i, h in enumerate(headers) if h in synonyms), None);
\* a header cell is kept whole: the test is equality with a synonym
FirstIndex(headers, synonyms) ==
    LET hits == {i \in 1..Len(headers) : headers[i] \in synonyms}
    IN  IF hits = {} THEN None ELSE Some(SetMin(hits) - 1)

_search_product_price_weight(headers) ==
    [name_col   |-> FirstIndex(headers, NameSynonyms),
     price_col  |-> FirstIndex(headers, PriceSynonyms),
     weight_col |-> FirstIndex(headers, WeightSynonyms)]

(***************************************************************************)
(* round(product_price / product_weight, 1), held in tenths.  The quotient *)
(* is a double and round() rounds the double's exact value half to even.   *)
(* A tie p/w = k/20 (k odd) is held exactly by the double when 5 divides   *)
(* k, which is every tie with |w| < 20: the weights of this model.         *)
(***************************************************************************)
RoundTenths(p, w) ==
    LET n == IF w < 0 THEN 0 - (10 * p) ELSE 10 * p
        d == IF w < 0 THEN 0 - w ELSE w
        q == n \div d
        r == n - q * d
    IN  IF 2 * r < d THEN q
        ELSE IF 2 * r > d THEN q + 1
        ELSE IF q % 2 = 0 THEN q ELSE q + 1

(***************************************************************************)
(* The body of the row loop (lines 54-60): one row to one catalog entry,   *)
(* or the exception it raises.                                             *)
(***************************************************************************)
Raised(e) == [raised |-> e, value |-> <<>>]
Value(v) == [raised |-> "", value |-> v]

\* row[index]: TypeError for None, IndexError past the end of the row
Cell(row, index) ==
    IF ~index.some THEN Raised("TypeError")
    ELSE IF index.i >= Len(row) THEN Raised("IndexError")
    ELSE Value(row[index.i + 1])

\* (mutant of NormalizeRow: a weight of zero gives a price_per_kg of 0, no error)
NormalizeRowZeroGuarded(row, cols, file_name) ==
    LET n == Cell(row, cols.name_col)
        p == Cell(row, cols.price_col)
        w == Cell(row, cols.weight_col)
    IN  IF n.raised # "" THEN Raised(n.raised)
        ELSE IF p.raised # "" THEN Raised(p.raised)
        ELSE IF IntOf(p.value).raised THEN Raised("ValueError")
        ELSE IF w.raised # "" THEN Raised(w.raised)
        ELSE IF IntOf(w.value).raised THEN Raised("ValueError")
        ELSE Value([product_name   |-> Strip(Lower(n.value)),
                    product_price  |-> IntOf(p.value).value,
                    product_weight |-> IntOf(w.value).value,
                    file_name      |-> file_name,
                    price_per_kg   |-> IF IntOf(w.value).value = 0 THEN 0
                                       ELSE RoundTenths(IntOf(p.value).value,
                                                        IntOf(w.value).value)])

NormalizeRow(row, cols, file_name) ==
    LET n == Cell(row, cols.name_col)
        p == Cell(row, cols.price_col)
        w == Cell(row, cols.weight_col)
    IN  IF n.raised # "" THEN Raised(n.raised)
        ELSE IF p.raised # "" THEN Raised(p.raised)
        ELSE IF IntOf(p.value).raised THEN Raised("ValueError")
        ELSE IF w.raised # "" THEN Raised(w.raised)
        ELSE IF IntOf(w.value).raised THEN Raised("ValueError")
        ELSE IF IntOf(w.value).value = 0 THEN Raised("ZeroDivisionError")
        ELSE Value([product_name   |-> Strip(Lower(n.value)),
                    product_price  |-> IntOf(p.value).value,
                    product_weight |-> IntOf(w.value).value,
                    file_name      |-> file_name,
                    price_per_kg   |-> RoundTenths(IntOf(p.value).value,
                                                   IntOf(w.value).value)])

(***************************************************************************)
(* The file system.  A directory maps entry names to contents; a content   *)
(* is what open and csv.reader give: unreadable (open raises), or the      *)
(* list of rows, each a list of cells.  Row 0 is the header row.           *)
(***************************************************************************)
File(rows) == [readable |-> TRUE, rows |-> rows]
Unreadable == [readable |-> FALSE, rows |-> <<>>]

price1_csv   == <<"p", "r", "i", "c", "e", "1", ".", "c", "s", "v">>
my_price_csv == <<"m", "y", "_", "p", "r", "i", "c", "e", ".", "c", "s", "v">>
Price_csv    == <<"P", "r", "i", "c", "e", ".", "c", "s", "v">>
price_txt    == <<"p", "r", "i", "c", "e", ".", "t", "x", "t">>
data_csv     == <<"d", "a", "t", "a", ".", "c", "s", "v">>

Hdr == <<"tovar", "cena", "ves">>

\* two well-formed rows; the name is lower-cased and stripped
Good == File(<<Hdr, <<<<" ", "A", "b">>, <<"4">>, <<"2">>>>, <<<<"a">>, <<"3">>, <<"4">>>>>>)
\* duplicate and near-miss headers; the weight cell carries a space
Wide == File(<<<<"id", "cena", "Tovar", "nazvanie", "ves", "roznica", "tovar", "massa">>,
               <<<<"7">>, <<"6">>, <<"x">>, <<"b", "a">>, <<" ", "3">>, <<"1">>, <<"z">>, <<"1">>>>>>)
\* a price that is no integer, between two well-formed rows
BadMid == File(<<Hdr, <<<<"a">>, <<"1">>, <<"2">>>>, <<<<"a", "b">>, <<"x">>, <<"2">>>>, <<<<"b", " ", "a">>, <<"9">>, <<"3">>>>>>)
\* a zero weight after a well-formed row
ZeroW == File(<<Hdr, <<<<"a">>, <<"2">>, <<"1">>>>, <<<<"b">>, <<"5">>, <<"0">>>>>>)
\* a negative price, a negative weight
Neg == File(<<Hdr, <<<<"a">>, <<"-", "4">>, <<"2">>>>, <<<<"b">>, <<"4">>, <<"-", "2">>>>>>)
\* no header is a weight synonym ("Ves" is not "ves")
NoWeight == File(<<<<"tovar", "cena", "Ves">>, <<<<"b">>, <<"3">>, <<"4">>>>>>)
\* no rows at all
Empty == File(<<>>)
\* a header row without price and weight, and no data row
HeaderOnly == File(<<<<"tovar">>>>)
\* a data row shorter than the header row
Short == File(<<Hdr, <<<<"a">>, <<"1">>>>>>)

Layouts ==
    { price1_csv :> Good @@ my_price_csv :> BadMid @@ price_txt :> Wide,
      price1_csv :> NoWeight @@ my_price_csv :> Wide @@ Price_csv :> Good,
      price1_csv :> Neg @@ my_price_csv :> ZeroW,
      price_txt :> Good @@ Price_csv :> Good @@ data_csv :> Wide,
      price1_csv :> Unreadable @@ my_price_csv :> Empty,
      price1_csv :> Wide @@ my_price_csv :> Good,
      price1_csv :> Short @@ my_price_csv :> HeaderOnly,
      <<>> }

Cwd == "./"                    \* the working directory (the default file_path)
Paths == {Cwd, "lists", "missing"}   \* "missing" is never a directory of the disk

(***************************************************************************)
(* load_prices.                                                            *)
(***************************************************************************)
\* (mutant of IsPriceFile: either test is enough)
IsPriceFileEither(file) ==
    \/ IsSubstring(<<"p", "r", "i", "c", "e">>, file)
    \/ EndsWith(file, <<".", "c", "s", "v">>)

\* 'price' in file and file.endswith('.csv')
IsPriceFile(file) ==
    /\ IsSubstring(<<"p", "r", "i", "c", "e">>, file)
    /\ EndsWith(file, <<".", "c", "s", "v">>)

\* os.listdir(path): the entries of the directory, in an order the system chooses
Listings(path) ==
    LET entries == DOMAIN disk[path]
        n == Cardinality(entries)
    IN  {l \in [1..n -> entries] : \A i, j \in 1..n : i # j => l[i] # l[j]}

\* open(file, 'r') and the read by csv.reader: the name is used as given,
\* so it is looked up in the working directory
OpenFile(path, file) ==
    IF file \notin DOMAIN disk[Cwd] THEN Raised("FileNotFoundError")
    ELSE IF ~disk[Cwd][file].readable THEN Raised("OSError")
    ELSE Value(disk[Cwd][file].rows)

RECURSIVE RowLoopSkipsBadRow(_, _, _, _)
\* (mutant of RowLoop: a row that raises is skipped and the loop goes on)
RowLoopSkipsBadRow(rows, cols, file_name, filtered_data) ==
    IF rows = <<>> THEN Value(filtered_data)
    ELSE LET r == NormalizeRow(Head(rows), cols, file_name)
         IN  RowLoopSkipsBadRow(Tail(rows), cols, file_name,
                                IF r.raised # "" THEN filtered_data
                                ELSE Append(filtered_data, r.value))

RECURSIVE RowLoop(_, _, _, _)
\* for row in csvreader[1:] (lines 53-60): the rows left, filtered_data so far
RowLoop(rows, cols, file_name, filtered_data) ==
    IF rows = <<>> THEN Value(filtered_data)
    ELSE LET r == NormalizeRow(Head(rows), cols, file_name)
         IN  IF r.raised # "" THEN Raised(r.raised)
             ELSE RowLoop(Tail(rows), cols, file_name, Append(filtered_data, r.value))

\* the try block of one file (lines 40-61): the rows the file adds, or the exception
TryFile(path, file) ==
    LET csvreader == OpenFile(path, file)
    IN  IF csvreader.raised # "" THEN Raised(csvreader.raised)
        ELSE IF csvreader.value = <<>> THEN Value(<<>>)
        ELSE RowLoop(Tail(csvreader.value),
                     _search_product_price_weight(Head(csvreader.value)),
                     file, <<>>)

\* one iteration of for file in price_files (lines 39-65): self.data after it
FileStep(path, file, d) ==
    LET t == TryFile(path, file)
    IN  IF t.raised # "" THEN d ELSE d \o t.value

RECURSIVE FileLoopStopsAtError(_, _, _)
\* (mutant of FileLoop: the first file that raises ends the loop)
FileLoopStopsAtError(path, files, d) ==
    IF files = <<>> THEN d
    ELSE IF TryFile(path, Head(files)).raised # "" THEN d
    ELSE FileLoopStopsAtError(path, Tail(files), FileStep(path, Head(files), d))

RECURSIVE FileLoop(_, _, _)
FileLoop(path, files, d) ==
    IF files = <<>> THEN d
    ELSE FileLoop(path, Tail(files), FileStep(path, Head(files), d))

load_prices(path) ==
    /\ op' = "load_prices"
    /\ file_path' = path
    /\ text' = <<>>
    /\ UNCHANGED <<disk, header_row, indices>>
    /\ IF path \notin DOMAIN disk
       THEN /\ raised' = "FileNotFoundError"
            /\ price_files' = <<>>
            /\ out' = <<>>
            /\ data' = data
       ELSE \E listing \in Listings(path) :
              LET files == SelectSeq(listing, IsPriceFile)
              IN  /\ price_files' = files
                  /\ IF files = <<>>
                     THEN /\ raised' = "ValueError"
                          /\ out' = <<>>
                          /\ data' = data
                     ELSE /\ Len(FileLoop(path, files, data)) <= MaxData
                          /\ raised' = ""
                          /\ data' = FileLoop(path, files, data)
                          /\ out' = data'

(***************************************************************************)
(* find_text.                                                              *)
(***************************************************************************)
\* (mutant of InsertByKey: x goes before the elements of its own key too)
InsertByKeyUnstable(s, x) ==
    LET later == {j \in 1..Len(s) : s[j].price_per_kg >= x.price_per_kg}
        at == IF later = {} THEN Len(s) + 1 ELSE SetMin(later)
    IN  SubSeq(s, 1, at - 1) \o <<x>> \o SubSeq(s, at, Len(s))

\* s with x put in before the first element whose key is greater: what a
\* stable sort does with the next element of its input
InsertByKey(s, x) ==
    LET later == {j \in 1..Len(s) : s[j].price_per_kg > x.price_per_kg}
        at == IF later = {} THEN Len(s) + 1 ELSE SetMin(later)
    IN  SubSeq(s, 1, at - 1) \o <<x>> \o SubSeq(s, at, Len(s))

RECURSIVE SortedInto(_, _)
SortedInto(s, acc) ==
    IF s = <<>> THEN acc ELSE SortedInto(Tail(s), InsertByKey(acc, Head(s)))

\* sorted(s, key=lambda x: x[-1])
Sorted(s) == SortedInto(s, <<>>)

\* (mutant of Matches: the name has to start with the query)
MatchesAtStart(t, data_row) ==
    /\ Len(t) <= Len(data_row.product_name)
    /\ SubSeq(data_row.product_name, 1, Len(t)) = t

\* text in data_row[0]
Matches(t, data_row) == IsSubstring(t, data_row.product_name)

\* (mutant of find_text: the catalog itself is sorted, self.data.sort(...))
find_text_sorts_catalog(t) ==
    /\ op' = "find_text"
    /\ text' = t
    /\ data' = Sorted(data)
    /\ out' = SelectSeq(data', LAMBDA data_row : Matches(t, data_row))
    /\ raised' = ""
    /\ file_path' = ""
    /\ price_files' = <<>>
    /\ UNCHANGED <<disk, header_row, indices>>

find_text(t) ==
    /\ op' = "find_text"
    /\ text' = t
    /\ out' = Sorted(SelectSeq(data, LAMBDA data_row : Matches(t, data_row)))
    /\ raised' = ""
    /\ file_path' = ""
    /\ price_files' = <<>>
    /\ UNCHANGED <<data, disk, header_row, indices>>

(***************************************************************************)
(* export_to_html.  A <tr> is the tuple of its six <td> values.            *)
(***************************************************************************)
\* (mutant of TableRow: the rows are numbered from 0)
TableRowFromZero(number, item) ==
    <<number, item.product_name, item.product_price, item.product_weight,
      item.file_name, item.price_per_kg>>

TableRow(number, item) ==
    <<number + 1, item.product_name, item.product_price, item.product_weight,
      item.file_name, item.price_per_kg>>

\* the loop of lines 120-131; enumerate counts from 0
TableBody(d) == [n \in 1..Len(d) |-> TableRow(n - 1, d[n])]

\* writable: whether open(fname, 'w') succeeds
export_to_html(writable) ==
    /\ op' = "export_to_html"
    /\ IF writable
       THEN raised' = "" /\ out' = TableBody(data)
       ELSE raised' = "OSError" /\ out' = <<>>
    /\ text' = <<>>
    /\ file_path' = ""
    /\ price_files' = <<>>
    /\ UNCHANGED <<data, disk, header_row, indices>>

(***************************************************************************)
(* The specification.                                                      *)
(***************************************************************************)
Queries == {<<>>, <<"a">>, <<"b">>, <<"a", "b">>, <<"b", "a">>, <<"A">>, <<" ">>, <<"z">>}

Init ==
    /\ data = <<>>
    /\ disk \in [{Cwd, "lists"} -> Layouts]
    /\ op = "__init__"
    /\ file_path = ""
    /\ price_files = <<>>
    /\ text = <<>>
    /\ raised = ""
    /\ out = <<>>
    /\ header_row = <<>>
    /\ indices = _search_product_price_weight(<<>>)

LoadPrices == \E path \in Paths : load_prices(path)
FindText == \E t \in Queries : find_text(t)
ExportToHtml == \E writable \in BOOLEAN : export_to_html(writable)

Next == LoadPrices \/ FindText \/ ExportToHtml

Spec == Init /\ [][Next]_vars

(***************************************************************************)
(* The specification of _search_product_price_weight as a pure function:   *)
(* it is applied to every header row of at most MaxHeaders cells.          *)
(***************************************************************************)
HeaderCells == {"tovar", "naimenovanie", "cena", "roznica", "ves", "massa", "Cena", "id"}
HeaderRows == UNION {[1..n -> HeaderCells] : n \in 0..MaxHeaders}

InitResolve ==
    /\ data = <<>>
    /\ disk = [path \in {Cwd, "lists"} |-> <<>>]
    /\ op = "__init__"
    /\ file_path = ""
    /\ price_files = <<>>
    /\ text = <<>>
    /\ raised = ""
    /\ out = <<>>
    /\ header_row \in HeaderRows
    /\ indices = _search_product_price_weight(<<>>)

Resolve ==
    /\ op = "__init__"
    /\ op' = "_search_product_price_weight"
    /\ indices' = _search_product_price_weight(header_row)
    /\ UNCHANGED <<data, disk, file_path, price_files, text, raised, out, header_row>>

SpecResolve == InitResolve /\ [][Resolve]_vars

(***************************************************************************)
(* Notions the properties share.  They describe a call from outside: from  *)
(* the catalog before and after it, the disk, and the rows of the files.   *)
(***************************************************************************)
Range(s) == {s[i] : i \in 1..Len(s)}
Count(s, x) == Cardinality({i \in 1..Len(s) : s[i] = x})
IsPrefix(s, t) == Len(s) <= Len(t) /\ SubSeq(t, 1, Len(s)) = s

\* what a successful load_prices added to the catalog
Appended == SubSeq(data', Len(data) + 1, Len(data'))

Loaded == op' = "load_prices" /\ raised' = ""

\* the data rows of a file of directory dir, header resolved, each normalised
RowResults(dir, file) ==
    LET rows == disk[dir][file].rows
    IN  [k \in 1..(Len(rows) - 1) |->
            NormalizeRow(rows[k + 1], _search_product_price_weight(rows[1]), file)]

\* processing the file of directory dir raises an error
Fails(dir, file) ==
    \/ file \notin DOMAIN disk[dir]
    \/ ~disk[dir][file].readable
    \/ \E k \in DOMAIN RowResults(dir, file) : RowResults(dir, file)[k].raised # ""

\* the records of a file that raises nothing, in row order
Records(dir, file) ==
    [k \in DOMAIN RowResults(dir, file) |-> RowResults(dir, file)[k].value]

Contribution(dir, file) ==
    IF Fails(dir, file) THEN <<>> ELSE Records(dir, file)

RECURSIVE Contributions(_, _)
Contributions(dir, files) ==
    IF files = <<>> THEN <<>>
    ELSE Contribution(dir, Head(files)) \o Contributions(dir, Tail(files))

\* a row of the file fails in parsing its price or weight, or has weight zero
HasBadRow(dir, file) ==
    /\ file \in DOMAIN disk[dir]
    /\ disk[dir][file].readable
    /\ \E k \in DOMAIN RowResults(dir, file) :
          RowResults(dir, file)[k].raised \in {"ValueError", "ZeroDivisionError"}

C2_RowSkippedAlone ==
    [][Loaded =>
          \A i \in 1..Len(price_files') :
              LET file == price_files'[i] IN
              HasBadRow(Cwd, file) =>
                  \A k \in DOMAIN RowResults(Cwd, file) :
                      RowResults(Cwd, file)[k].raised = "" =>
                          RowResults(Cwd, file)[k].value \in Range(Appended)]_vars

(***************************************************************************)
(* C2 amended: such a row makes its whole file add nothing: no record of   *)
(* the rows before it or after it reaches the catalog.                     *)
(***************************************************************************)
C2_BadRowDropsFile ==
    [][Loaded =>
          \A i \in 1..Len(price_files') :
              HasBadRow(Cwd, price_files'[i]) =>
                  \A n \in 1..Len(Appended) :
                      Appended[n].file_name # price_files'[i]]_vars

C2_Witness ==
    /\ op = "load_prices" /\ raised = "" /\ data # <<>>
    /\ \E i \in 1..Len(price_files) :
          /\ HasBadRow(Cwd, price_files[i])
          /\ \E k, m, n \in DOMAIN RowResults(Cwd, price_files[i]) :
                /\ k < m /\ m < n
                /\ RowResults(Cwd, price_files[i])[k].raised = ""
                /\ RowResults(Cwd, price_files[i])[m].raised = "ValueError"
                /\ RowResults(Cwd, price_files[i])[n].raised = ""

(***************************************************************************)
(* C3: find_text returns its records in ascending price_per_kg order, and  *)
(* the returned records of one price_per_kg stand in the order they have   *)
(* in the catalog.                                                         *)
(***************************************************************************)
WithKey(s, key) == SelectSeq(s, LAMBDA r : r.price_per_kg = key)

C3_SortedStable ==
    op = "find_text" =>
        /\ \A i, j \in 1..Len(out) :
              i < j => out[i].price_per_kg <= out[j].price_per_kg
        /\ \A r \in Range(data) :
              WithKey(out, r.price_per_kg) =
                  WithKey(SelectSeq(data, LAMBDA x : IsSubstring(text, x.product_name)),
                          r.price_per_kg)

\* two different records of one key are returned, and the sort moved a record
C3_Witness ==
    /\ op = "find_text"
    /\ \E i, j \in 1..Len(out) :
          i < j /\ out[i] # out[j] /\ out[i].price_per_kg = out[j].price_per_kg
    /\ out # SelectSeq(data, LAMBDA x : IsSubstring(text, x.product_name))

(***************************************************************************)
(* C4: find_text returns exactly the catalog records whose name contains   *)
(* the query, each as often as the catalog holds it; the empty query       *)
(* returns every record, and the call never fails (empty catalog too).     *)
(***************************************************************************)
C4_ExactlyTheMatches ==
    op = "find_text" =>
        /\ raised = ""
        /\ \A r \in Range(data) \cup Range(out) :
              Count(out, r) =
                  IF IsSubstring(text, r.product_name) THEN Count(data, r) ELSE 0
        /\ text = <<>> => Len(out) = Len(data)
        /\ data = <<>> => out = <<>>

\* a record held twice is returned twice on a match inside its name, and
\* another record of the catalog is left out
C4_Witness ==
    /\ op = "find_text" /\ text # <<>>
    /\ \E r, q \in Range(data) :
          /\ Count(data, r) = 2 /\ Count(out, r) = 2
          /\ SubSeq(r.product_name, 1, Len(text)) # text
          /\ Count(out, q) = 0

(***************************************************************************)
(* C5 as claimed: every record of the catalog has price >= 0 and           *)
(* weight > 0.                                                             *)
(***************************************************************************)
C5_NonNegative ==
    \A i \in 1..Len(data) :
        data[i].product_price >= 0 /\ data[i].product_weight > 0

(***************************************************************************)
(* C5 amended: every record of the catalog has a weight other than zero    *)
(* (a row of weight zero never gives a record); prices and weights below   *)
(* zero are taken as they are.                                             *)
(***************************************************************************)
C5_WeightNotZero ==
    \A i \in 1..Len(data) : data[i].product_weight # 0

\* a load met a row of weight zero, and the catalog holds a negative price
\* and a negative weight
C5_Witness ==
    /\ op = "load_prices" /\ raised = ""
    /\ \E i \in 1..Len(price_files) :
          /\ price_files[i] \in DOMAIN disk[Cwd]
          /\ \E k \in DOMAIN RowResults(Cwd, price_files[i]) :
                RowResults(Cwd, price_files[i])[k].raised = "ZeroDivisionError"
    /\ \E i, j \in 1..Len(data) :
          data[i].product_price < 0 /\ data[j].product_weight < 0

(***************************************************************************)
(* C6: for each of name, price and weight, _search_product_price_weight    *)
(* returns the smallest index whose header is one of the field's synonyms  *)
(* (compared whole, case kept), and None when no header is.                *)
(***************************************************************************)
IsFirstOf(index, row, synonyms) ==
    IF index.some
    THEN /\ index.i + 1 \in 1..Len(row)
         /\ row[index.i + 1] \in synonyms
         /\ \A j \in 1..index.i : row[j] \notin synonyms
    ELSE \A j \in 1..Len(row) : row[j] \notin synonyms

C6_FirstSynonymWins ==
    op = "_search_product_price_weight" =>
        /\ IsFirstOf(indices.name_col, header_row, NameSynonyms)
        /\ IsFirstOf(indices.price_col, header_row, PriceSynonyms)
        /\ IsFirstOf(indices.weight_col, header_row, WeightSynonyms)

\* a later header of the same field loses, a field without a header is None,
\* and a header that differs in case only does not count
C6_Witness ==
    /\ op = "_search_product_price_weight"
    /\ indices.price_col.some
    /\ \E j \in 1..Len(header_row) :
          j > indices.price_col.i + 1 /\ header_row[j] \in PriceSynonyms
    /\ \E j \in 1..Len(header_row) :
          j < indices.price_col.i + 1 /\ header_row[j] = "Cena"
    /\ ~indices.weight_col.some

(***************************************************************************)
(* C7: load_prices reads each matching file from the directory it was      *)
(* given: the catalog grows by the records of that directory's files,      *)
(* whether or not the directory is the working directory.                  *)
(***************************************************************************)
C7_ReadsFromGivenDirectory ==
    [][Loaded => data' = data \o Contributions(file_path', price_files')]_vars

(***************************************************************************)
(* C8: on an existing directory load_prices raises ValueError exactly      *)
(* when no entry name both contains "price" and ends with ".csv"; it then  *)
(* has opened no file and left the catalog as it was.                      *)
(***************************************************************************)
C8_NoPriceFiles ==
    [][(op' = "load_prices" /\ file_path' \in DOMAIN disk) =>
          /\ raised' = "ValueError" <=>
                ~\E name \in DOMAIN disk[file_path'] :
                    /\ \E i \in 1..Len(name) :
                          /\ i + 4 <= Len(name)
                          /\ <<name[i], name[i + 1], name[i + 2], name[i + 3], name[i + 4]>>
                                = <<"p", "r", "i", "c", "e">>
                    /\ Len(name) >= 4
                    /\ <<name[Len(name) - 3], name[Len(name) - 2],
                         name[Len(name) - 1], name[Len(name)]>> = <<".", "c", "s", "v">>
          /\ raised' = "ValueError" => (price_files' = <<>> /\ data' = data)]_vars

\* ValueError on a directory whose entries each meet one of the two tests
\* only, with records in the catalog
C8_Witness ==
    /\ op = "load_prices" /\ raised = "ValueError"
    /\ price_txt \in DOMAIN disk[file_path]
    /\ Price_csv \in DOMAIN disk[file_path]
    /\ data_csv \in DOMAIN disk[file_path]
    /\ data # <<>>

(***************************************************************************)
(* C9: export_to_html writes one table row for each record of the          *)
(* catalog: row i carries the number i and the five fields of the i-th     *)
(* record in the catalog's order.                                          *)
(***************************************************************************)
C9_ExportRows ==
    (op = "export_to_html" /\ raised = "") =>
        /\ Len(out) = Len(data)
        /\ \A i \in 1..Len(data) :
              /\ Len(out[i]) = 6
              /\ out[i][1] = i
              /\ out[i][2] = data[i].product_name
              /\ out[i][3] = data[i].product_price
              /\ out[i][4] = data[i].product_weight
              /\ out[i][5] = data[i].file_name
              /\ out[i][6] = data[i].price_per_kg

C9_Witness ==
    /\ op = "export_to_html" /\ raised = ""
    /\ Len(out) >= 3
    /\ data[1] # data[2]
    /\ data[1].price_per_kg > data[2].price_per_kg

(***************************************************************************)
(* C10: the catalog is append-only: every call leaves the old catalog as   *)
(* a prefix of the new one, find_text and export_to_html leave it as it    *)
(* was, and load_prices appends in listing order and, within one file, in  *)
(* row order.                                                              *)
(***************************************************************************)
Position(files, file) == CHOOSE i \in 1..Len(files) : files[i] = file

C10_AppendOnly ==
    [][/\ IsPrefix(data, data')
       /\ op' \in {"find_text", "export_to_html"} => data' = data
       /\ Loaded =>
             /\ \A n \in 1..Len(Appended) :
                   Appended[n].file_name \in Range(price_files')
             /\ \A m, n \in 1..Len(Appended) :
                   m < n => Position(price_files', Appended[m].file_name)
                              <= Position(price_files', Appended[n].file_name)
             /\ \A i \in 1..Len(price_files') :
                   LET file == price_files'[i]
                       mine == SelectSeq(Appended, LAMBDA r : r.file_name = file)
                   IN  mine # <<>> => mine = Records(Cwd, file)]_vars

\* a search that sorted its result into another order than the catalog's,
\* over a catalog two loads filled from two files
C10_Witness ==
    /\ op = "find_text"
    /\ Len(data) >= 4
    /\ Len(out) = Len(data) /\ out # data
    /\ \E i, j \in 1..Len(data) : data[i].file_name # data[j].file_name

====
